---- MODULE Spec2Model ----
(***************************************************************************)
(* Loan lifecycle and payment ledger of the loan-collection backend        *)
(* (routes/loanRoutes.js, routes/csoRoutes.js, routes/businessReportRoutes *)
(* .js, models/loan.js).                                                   *)
(*                                                                         *)
(* One loan document, the agent's remittance ledger and the holiday store  *)
(* are modelled.  Money is counted in the smallest currency unit (0.01),   *)
(* so Number(x.toFixed(2)) is the identity on stored amounts and is a      *)
(* rounding only after a multiplication or a division.  A Date is a number *)
(* of ticks since the epoch (1970-01-01, a Thursday), TicksPerDay ticks to *)
(* a day; the server's local time zone is taken to be UTC.                 *)
(*                                                                         *)
(* Spec is the loan's lifecycle; SpecCalendar adds the holiday store and   *)
(* the remittance ledger to the way from submission to repayment;          *)
(* SpecAdmission is the submission of further loans by an agent with a     *)
(* defaulting target.  SpecSanitize, SpecSync and SpecGenerate apply       *)
(* sanitizeDailyPayments, syncLoanRepaymentSchedule and                    *)
(* generateRepaymentSchedule to arguments drawn from bounded sets;         *)
(* SpecResync applies syncLoanRepaymentSchedule before and after a         *)
(* payment.  SpecClassifier is the delinquency figures of an active loan   *)
(* on an as-of day, SpecJob the daily aggregation job on the agent's       *)
(* monthly records, and SpecRequests the interleavings of the reads and    *)
(* saves of requests on one loan.                                          *)
(***************************************************************************)
EXTENDS Integers, Sequences, FiniteSets, TLC

\* ------------------------------------------------------------------ bounds
MaxTime == 2
TicksPerDay == 2
MaxLedger == 2
MaxRaw == 2
MaxStartDay == 55
MaxLoans == 3

\* ------------------------------------------------------- program constants
WORKING_DAYS_COUNT == 23
INSTALLMENT_DAYS_COUNT == 22
WEEKLY_INSTALLMENT_COUNT == 5
DEFAULT_INTEREST_RATE_PCT == 10
DaysPerYear == 365

\* ------------------------------------------------------------ input sets
ApproveAmounts == {0, 100}
PayAmounts == {0, 55, 109, 110}
PayDates == {0, 2, 4}
HolidayInputs == {3}
RemittanceDates == {3}
NoLedger == <<[amount |-> -1, date |-> -1]>>
BodyLedgers == {NoLedger, <<[amount |-> 55, date |-> 0]>>}
BodyAmountsToBePaid == {0}
CallKeys == {"callCso", "callCustomer", "callGuarantor", "callGroupLeader"}
CallCheckUpdates ==
  {[k \in CallKeys |-> TRUE]} \cup
  {[k \in {key} |-> FALSE] : key \in {"callGroupLeader"}}

VARIABLES loan, now, holidays, remittance, res, cso, probe

vars == <<loan, now, holidays, remittance, res, cso, probe>>

\* ------------------------------------------------------------------ dates
Day(t) == t \div TicksPerDay

normalizeDate(t) == Day(t) * TicksPerDay

GetDay(t) == (Day(t) + 4) % 7

isWeekend(t) == GetDay(t) = 6 \/ GetDay(t) = 0

addDays(t, amount) == normalizeDate(t) + amount * TicksPerDay

formatDateKey(t) == Day(normalizeDate(t))

datesAreSameDay(first, second) == formatDateKey(first) = formatDateKey(second)

RecurringKey(day) == day % DaysPerYear

\* ----------------------------------------------------------------- amounts
RoundDiv(a, b) == (2 * a + b) \div (2 * b)

Abs(x) == IF x < 0 THEN -x ELSE x

RECURSIVE SumAmounts(_)
SumAmounts(s) ==
  IF s = <<>> THEN 0 ELSE Head(s).amount + SumAmounts(Tail(s))

RECURSIVE SumAmountPaid(_)
SumAmountPaid(s) ==
  IF s = <<>> THEN 0 ELSE Head(s).amountPaid + SumAmountPaid(Tail(s))

\* ------------------------------------------------------ schedule generator
RECURSIVE WeekdaysFrom(_, _)
WeekdaysFrom(cursor, n) ==
  IF n = 0 THEN <<>>
  ELSE IF isWeekend(cursor) THEN WeekdaysFrom(cursor + TicksPerDay, n)
  ELSE <<cursor>> \o WeekdaysFrom(cursor + TicksPerDay, n - 1)

ScheduleOf(dates) ==
  [i \in 1..Len(dates) |->
     [date |-> dates[i],
      status |-> IF i = 1 THEN "approved" ELSE "pending",
      amountPaid |-> 0]]

\* A variant of generateDailyRepaymentSchedule that stops at the number of
\* instalments.
generateDailyRepaymentScheduleOfInstalments(startDate) ==
  ScheduleOf(WeekdaysFrom(startDate, INSTALLMENT_DAYS_COUNT))

generateDailyRepaymentSchedule(startDate) ==
  ScheduleOf(WeekdaysFrom(startDate, WORKING_DAYS_COUNT))

generateWeeklyRepaymentSchedule(startDate) ==
  ScheduleOf([i \in 1..WEEKLY_INSTALLMENT_COUNT |->
                startDate + (i - 1) * 7 * TicksPerDay])

generateRepaymentSchedule(startDate, loanType) ==
  IF loanType = "weekly"
  THEN generateWeeklyRepaymentSchedule(startDate)
  ELSE generateDailyRepaymentSchedule(startDate)

\* ---------------------------------------------------------------- holidays
resolveHolidayMap(store, startDate, endDate) ==
  LET start == normalizeDate(startDate)
      end == normalizeDate(endDate)
      found == {h \in store :
                  \/ (h.holiday >= start /\ h.holiday <= end)
                  \/ h.isRecurring}
  IN [byDate |-> {formatDateKey(h.holiday) : h \in found},
      recurring |-> {RecurringKey(Day(h.holiday)) :
                       h \in {x \in found : x.isRecurring}}]

applyHolidayStatus(entry, holidayMaps) ==
  IF \/ formatDateKey(entry.date) \in holidayMaps.byDate
     \/ RecurringKey(Day(entry.date)) \in holidayMaps.recurring
  THEN [entry EXCEPT !.status = "holiday", !.amountPaid = 0]
  ELSE entry

\* --------------------------------------------------------- sequence helpers
RECURSIVE InsertByDate(_, _)
InsertByDate(sorted, e) ==
  IF sorted = <<>> THEN <<e>>
  ELSE IF e.date < Head(sorted).date THEN <<e>> \o sorted
  ELSE <<Head(sorted)>> \o InsertByDate(Tail(sorted), e)

RECURSIVE SortByDate(_)
SortByDate(s) ==
  IF s = <<>> THEN <<>>
  ELSE InsertByDate(SortByDate(SubSeq(s, 1, Len(s) - 1)), s[Len(s)])

RECURSIVE FirstPerDay(_, _)
FirstPerDay(s, seenDates) ==
  IF s = <<>> THEN <<>>
  ELSE LET key == formatDateKey(Head(s).date)
       IN IF key \in seenDates
          THEN FirstPerDay(Tail(s), seenDates)
          ELSE <<Head(s)>> \o FirstPerDay(Tail(s), seenDates \cup {key})

initializeRepaymentSchedule(l, fallbackStartDate, store) ==
  LET hasExistingSchedule == Len(l.repaymentSchedule) > 0
      startDate == normalizeDate(fallbackStartDate)
      baseEntries == IF hasExistingSchedule
                     THEN l.repaymentSchedule
                     ELSE generateRepaymentSchedule(startDate, l.loanType)
      lookupEndDate == addDays(startDate, WORKING_DAYS_COUNT * 2)
      holidayMaps == resolveHolidayMap(store, startDate, lookupEndDate)
      mapped == [i \in 1..Len(baseEntries) |->
                   LET entry == baseEntries[i]
                       status ==
                         IF entry.status \in {"holiday", "submitted", "approved"}
                         THEN entry.status
                         ELSE IF i = 1 THEN "approved" ELSE "pending"
                   IN applyHolidayStatus(
                        [date |-> normalizeDate(entry.date),
                         status |-> status,
                         amountPaid |-> 0], holidayMaps)]
      schedule == SortByDate(FirstPerDay(mapped, {}))
  IN IF schedule # <<>> /\ schedule[1].status \notin {"submitted", "holiday"}
     THEN [schedule EXCEPT ![1].status = "approved"]
     ELSE schedule

\* ------------------------------------------------------ ledger sanitization
\* dailyPaymentSchema is declared with _id: false, so a stored payment never
\* carries an identifier: every surviving entry takes the "no identifier"
\* branch, is de-duplicated on its (date, amount) key and gets a fresh
\* ObjectId, which sets changed.
RECURSIVE UniquePayments(_, _)
UniquePayments(s, seenCompositeKeys) ==
  IF s = <<>> THEN <<>>
  ELSE LET p == Head(s)
           key == <<p.date, p.amount>>
       IN IF p.amount <= 0 \/ key \in seenCompositeKeys
          THEN UniquePayments(Tail(s), seenCompositeKeys)
          ELSE <<p>> \o UniquePayments(Tail(s), seenCompositeKeys \cup {key})

\* The sort comparator calls localeCompare on an ObjectId when two entries
\* have the same date: that call is not a function and throws a TypeError.
SortThrows(unique) ==
  \E i, j \in 1..Len(unique) : i # j /\ unique[i].date = unique[j].date

sanitizeDailyPaymentsKeepingRepeats(dailyPayment) ==
  LET unique == SelectSeq(dailyPayment, LAMBDA p : p.amount > 0)
      sanitized == SortByDate(unique)
  IN [threw |-> FALSE,
      payments |-> sanitized,
      total |-> SumAmounts(sanitized),
      changed |-> Len(unique) < Len(dailyPayment) \/ Len(unique) > 0]

sanitizeDailyPayments(dailyPayment) ==
  LET unique == UniquePayments(dailyPayment, {})
      sanitized == SortByDate(unique)
  IN [threw |-> SortThrows(unique),
      payments |-> sanitized,
      total |-> SumAmounts(sanitized),
      changed |-> Len(unique) < Len(dailyPayment) \/ Len(unique) > 0]

\* -------------------------------------------------------------------- state
Statuses == {"waiting for approval", "approved", "active loan", "fully paid",
             "rejected", "edited"}

NoDate == -1

\* Loan.create(buildLoanPayload(body, cso)): status "waiting for approval",
\* schema defaults for everything the agent did not send.
NewLoan(loanType) ==
  [status |-> "waiting for approval",
   callChecks |-> [k \in CallKeys |-> FALSE],
   loanType |-> loanType,
   amountApproved |-> 0,
   amountToBePaid |-> 0,
   dailyAmount |-> 0,
   amountDisbursed |-> 0,
   dailyPayment |-> <<>>,
   amountPaidSoFar |-> 0,
   disbursedAt |-> NoDate,
   repaymentSchedule |-> <<>>]

Respond(op, code) == [op |-> op, code |-> code]

\* The agent's document as far as loan submission reads it (defaultingTarget,
\* schema default 0), with the number of loans filed under the agent's id.
NewCso == [defaultingTarget |-> 0, loans |-> 1]

\* probe holds what no stored document holds: the argument and the result of
\* a function applied on its own, the figures a reporting route answers with,
\* or the requests in flight; the handlers of Next leave it alone.
NoProbe == [fn |-> "none"]

Init ==
  /\ loan \in {NewLoan(t) : t \in {"daily", "weekly"}}
  /\ now = 0
  /\ holidays = {}
  /\ remittance = {}
  /\ res = Respond("submit", 201)
  /\ cso = NewCso
  /\ probe = NoProbe

\* The clock: new Date() never goes back.
Tick ==
  /\ now < MaxTime
  /\ now' = now + 1
  /\ UNCHANGED <<loan, holidays, remittance, res, cso, probe>>

\* PATCH /api/loans/:id/call-checks
CallChecks(update) ==
  /\ loan' = [loan EXCEPT !.callChecks =
                [k \in CallKeys |->
                   IF k \in DOMAIN update THEN update[k] ELSE loan.callChecks[k]]]
  /\ res' = Respond("call-checks", 200)
  /\ UNCHANGED <<now, holidays, remittance, cso, probe>>

\* A variant of pendingVerifications that forgets the group leader's call.
pendingVerificationsWithoutGroupLeader(callChecks) ==
  {k \in CallKeys \ {"callGroupLeader"} : ~callChecks[k]}

\* The call checks that are still missing.
pendingVerifications(callChecks) ==
  {k \in CallKeys : ~callChecks[k]}

\* PATCH /api/loans/:id/approve
ApproveLoan(amountApproved) ==
  /\ IF amountApproved <= 0
     THEN /\ res' = Respond("approve", 400)
          /\ UNCHANGED loan
     ELSE IF loan.status = "approved"
     THEN /\ res' = Respond("approve", 400)
          /\ UNCHANGED loan
     ELSE IF loan.status # "waiting for approval"
     THEN /\ res' = Respond("approve", 400)
          /\ UNCHANGED loan
     ELSE IF pendingVerifications(loan.callChecks) # {}
     THEN /\ res' = Respond("approve", 400)
          /\ UNCHANGED loan
     ELSE LET interest == RoundDiv(amountApproved * DEFAULT_INTEREST_RATE_PCT, 100)
              amountToBePaid == amountApproved + interest
              repaymentCount == IF loan.loanType = "weekly"
                                THEN WEEKLY_INSTALLMENT_COUNT
                                ELSE INSTALLMENT_DAYS_COUNT
          IN /\ loan' = [loan EXCEPT
                  !.status = "approved",
                  !.amountApproved = amountApproved,
                  !.amountToBePaid = amountToBePaid,
                  !.dailyAmount = RoundDiv(amountToBePaid, repaymentCount),
                  !.repaymentSchedule =
                     generateRepaymentSchedule(now, loan.loanType)]
             /\ res' = Respond("approve", 200)
  /\ UNCHANGED <<now, holidays, remittance, cso, probe>>

\* PATCH /api/loans/:id/reject
RejectLoan(reasonGiven) ==
  /\ IF ~reasonGiven
     THEN /\ res' = Respond("reject", 400)
          /\ UNCHANGED loan
     ELSE IF loan.status = "approved"
     THEN /\ res' = Respond("reject", 400)
          /\ UNCHANGED loan
     ELSE IF loan.status = "rejected"
     THEN /\ res' = Respond("reject", 400)
          /\ UNCHANGED loan
     ELSE /\ loan' = [loan EXCEPT !.status = "rejected",
                                  !.repaymentSchedule = <<>>]
          /\ res' = Respond("reject", 200)
  /\ UNCHANGED <<now, holidays, remittance, cso, probe>>

\* PATCH /api/loans/:id/request-edit
RequestEdit(reasonGiven) ==
  /\ IF ~reasonGiven
     THEN /\ res' = Respond("request-edit", 400)
          /\ UNCHANGED loan
     ELSE IF loan.status = "active loan" \/ loan.status = "fully paid"
     THEN /\ res' = Respond("request-edit", 400)
          /\ UNCHANGED loan
     ELSE /\ loan' = [loan EXCEPT !.status = "edited"]
          /\ res' = Respond("request-edit", 200)
  /\ UNCHANGED <<now, holidays, remittance, cso, probe>>

\* buildLoanPayload: the agent's loanDetails are spread into the payload;
\* dailyPayment is the body's array when it sends one, [] otherwise.
buildLoanPayload(body) ==
  [loanType |-> body.loanType,
   dailyPayment |-> IF body.dailyPayment = NoLedger THEN <<>>
                    ELSE body.dailyPayment,
   amountToBePaid |-> body.amountToBePaid,
   dailyAmount |-> body.dailyAmount]

\* PATCH /api/loans/:id/cso-edit
CsoEdit(body, isOwner) ==
  /\ IF ~isOwner
     THEN /\ res' = Respond("cso-edit", 403)
          /\ UNCHANGED loan
     ELSE IF loan.status # "edited"
     THEN /\ res' = Respond("cso-edit", 400)
          /\ UNCHANGED loan
     ELSE IF ~body.complete
     THEN /\ res' = Respond("cso-edit", 400)
          /\ UNCHANGED loan
     ELSE LET payload == buildLoanPayload(body)
          IN /\ loan' = [loan EXCEPT
                  !.loanType = payload.loanType,
                  !.dailyPayment = payload.dailyPayment,
                  !.amountApproved = 0,
                  !.amountToBePaid = payload.amountToBePaid,
                  !.dailyAmount = payload.dailyAmount,
                  !.status = "waiting for approval",
                  !.amountPaidSoFar = 0,
                  !.repaymentSchedule = <<>>]
             /\ res' = Respond("cso-edit", 200)
  /\ UNCHANGED <<now, holidays, remittance, cso, probe>>

\* A variant of the disbursement guard that only turns away loans that are
\* still waiting for approval.
notDisbursableOnlyWaiting(l) == l.status = "waiting for approval"

\* The disbursement guard: only approved loans can be disbursed.
notDisbursable(l) == l.status # "approved"

\* PATCH /api/loans/:id/disburse
DisburseLoan ==
  /\ IF notDisbursable(loan)
     THEN /\ res' = Respond("disburse", 400)
          /\ UNCHANGED loan
     ELSE IF loan.amountApproved <= 0
     THEN /\ res' = Respond("disburse", 400)
          /\ UNCHANGED loan
     ELSE /\ loan' = [loan EXCEPT
               !.amountDisbursed = loan.amountApproved,
               !.status = "active loan",
               !.disbursedAt = now,
               !.amountPaidSoFar = 0,
               !.repaymentSchedule =
                  initializeRepaymentSchedule(loan, now, holidays)]
          /\ res' = Respond("disburse", 200)
  /\ UNCHANGED <<now, holidays, remittance, cso, probe>>

\* Math.abs(updatedPaid - amountToBePaid) < 0.01 on binary floating point:
\* true for equal amounts, false from 0.02 apart, and at exactly 0.01 apart
\* either (0.03 - 0.02 < 0.01, while 110 - 109.99 > 0.01): the set holds the
\* outcomes the comparison can have for amounts that far apart.
WithinTolerance(difference) ==
  IF difference = 0 THEN {TRUE}
  ELSE IF Abs(difference) = 1 THEN {TRUE, FALSE}
  ELSE {FALSE}

\* A variant of hasRemitted that never finds a remittance.
hasRemittedNever(remittanceLedger, paymentDate) == FALSE

\* req.cso.remittance.some(...): the agent filed a remittance for the day of
\* the payment.
hasRemitted(remittanceLedger, paymentDate) ==
  \E r \in remittanceLedger :
    normalizeDate(r.date) = normalizeDate(paymentDate)

\* The 400 of a payment for a day already remitted, told apart by its message.
AlreadyRemitted ==
  [op |-> "payment", code |-> 400, message |-> "already remitted"]

\* POST /api/loans/:id/payments
RecordPayment(amount, date) ==
  /\ Len(loan.dailyPayment) < MaxLedger
  /\ LET amountToBePaid == loan.amountToBePaid
         currentPaid == loan.amountPaidSoFar
         outstandingBalance == amountToBePaid - currentPaid
         pushed == Append(loan.dailyPayment, [amount |-> amount, date |-> date])
         sanitized == sanitizeDailyPayments(pushed)
         updatedPaid == sanitized.total
     IN IF amount <= 0
        THEN /\ res' = Respond("payment", 400)
             /\ UNCHANGED loan
        ELSE IF hasRemitted(remittance, date)
        THEN /\ res' = AlreadyRemitted
             /\ UNCHANGED loan
        ELSE IF isWeekend(date)
        THEN /\ res' = Respond("payment", 400)
             /\ UNCHANGED loan
        ELSE IF amountToBePaid > 0
                /\ amount > (IF outstandingBalance > 0
                             THEN outstandingBalance ELSE 0)
        THEN /\ res' = Respond("payment", 400)
             /\ UNCHANGED loan
        ELSE IF sanitized.threw
        THEN /\ res' = Respond("payment", 400)
             /\ UNCHANGED loan
        ELSE /\ \E near \in WithinTolerance(updatedPaid - amountToBePaid) :
                  loan' = [loan EXCEPT
                    !.dailyPayment = IF sanitized.changed
                                     THEN sanitized.payments ELSE pushed,
                    !.amountPaidSoFar = updatedPaid,
                    !.status = IF amountToBePaid > 0 /\ near
                               THEN "fully paid" ELSE loan.status]
             /\ res' = Respond("payment", 200)
  /\ UNCHANGED <<now, holidays, remittance, cso, probe>>

\* The read repair shared by the two read handlers: sanitize the ledger and
\* save the loan when the ledger changed.
ReadRepair(l) ==
  LET sanitized == sanitizeDailyPayments(l.dailyPayment)
  IN IF sanitized.threw
     THEN [code |-> 400, loan |-> l]
     ELSE [code |-> 200,
           loan |-> IF sanitized.changed
                    THEN [l EXCEPT !.dailyPayment = sanitized.payments,
                                   !.amountPaidSoFar = sanitized.total]
                    ELSE l]

\* GET /api/loans/:id
GetLoan ==
  /\ loan' = ReadRepair(loan).loan
  /\ res' = Respond("get-loan", ReadRepair(loan).code)
  /\ UNCHANGED <<now, holidays, remittance, cso, probe>>

\* GET /api/loans/:id/repayment/sync: returns after the read repair; the
\* call of syncLoanRepaymentSchedule below the return is never reached.
SyncRepayment ==
  /\ loan' = ReadRepair(loan).loan
  /\ res' = Respond("repayment-sync", ReadRepair(loan).code)
  /\ UNCHANGED <<now, holidays, remittance, cso, probe>>

\* POST /api/csos/remittance
PostRemittance(date, amountCollected, amountPaid) ==
  /\ LET targetDate == normalizeDate(date)
         existing == {r \in remittance : normalizeDate(r.date) = targetDate}
     IN IF amountPaid <= 0
        THEN /\ res' = Respond("remittance", 400)
             /\ UNCHANGED remittance
        ELSE IF existing # {}
        THEN LET entry == CHOOSE r \in existing : TRUE
                 expectedAmount == IF amountCollected > 0
                                   THEN amountCollected
                                   ELSE entry.amountCollected
                 newTotalPaid == entry.amountPaid + amountPaid
             IN IF expectedAmount <= 0 \/ newTotalPaid > expectedAmount
                THEN /\ res' = Respond("remittance", 400)
                     /\ UNCHANGED remittance
                ELSE /\ remittance' = (remittance \ {entry}) \cup
                          {[entry EXCEPT !.amountCollected = expectedAmount,
                                         !.amountPaid = newTotalPaid]}
                     /\ res' = Respond("remittance", 200)
        ELSE IF amountCollected <= 0 \/ amountPaid > amountCollected
        THEN /\ res' = Respond("remittance", 400)
             /\ UNCHANGED remittance
        ELSE /\ remittance' = remittance \cup
                  {[date |-> targetDate,
                    amountCollected |-> amountCollected,
                    amountPaid |-> amountPaid]}
             /\ res' = Respond("remittance", 200)
  /\ UNCHANGED <<loan, now, holidays, cso, probe>>

normalizeDateOnly(t) == Day(t) * TicksPerDay

\* POST /api/holidays
AddHoliday(holiday, isRecurring) ==
  /\ LET normalizedDate == normalizeDateOnly(holiday)
         duplicate ==
           IF isRecurring
           THEN \E h \in holidays :
                  /\ h.isRecurring
                  /\ RecurringKey(Day(h.holiday)) =
                       RecurringKey(Day(normalizedDate))
           ELSE \E h \in holidays :
                  ~h.isRecurring /\ Day(h.holiday) = Day(normalizedDate)
     IN IF duplicate
        THEN /\ res' = Respond("holiday", 409)
             /\ UNCHANGED holidays
        ELSE /\ holidays' = holidays \cup
                  {[holiday |-> normalizedDate, isRecurring |-> isRecurring]}
             /\ res' = Respond("holiday", 201)
  /\ UNCHANGED <<loan, now, remittance, cso, probe>>

EditBodies ==
  [complete : BOOLEAN, loanType : {"daily"}, dailyPayment : BodyLedgers,
   amountToBePaid : BodyAmountsToBePaid, dailyAmount : {0}]

\* The loan lifecycle.  AddHoliday and PostRemittance are not among the steps:
\* under Spec the holiday store stays empty and no remittance is filed, which
\* keeps the reachable states to the loan's own history.
Next ==
  \/ Tick
  \/ \E update \in CallCheckUpdates : CallChecks(update)
  \/ \E amountApproved \in ApproveAmounts : ApproveLoan(amountApproved)
  \/ \E reasonGiven \in BOOLEAN : RejectLoan(reasonGiven)
  \/ \E reasonGiven \in BOOLEAN : RequestEdit(reasonGiven)
  \/ \E body \in EditBodies, isOwner \in BOOLEAN : CsoEdit(body, isOwner)
  \/ DisburseLoan
  \/ \E amount \in PayAmounts, date \in PayDates :
       RecordPayment(amount, date)
  \/ GetLoan
  \/ SyncRepayment

Spec == Init /\ [][Next]_vars

TypeOK ==
  /\ loan.status \in Statuses
  /\ now \in 0..MaxTime
  /\ Len(loan.dailyPayment) <= MaxLedger

\* ------------------------------------------- sanitization called on its own
\* The ledgers a loan document can hold: the schema casts every amount to a
\* number and every date to a valid Date, and gives no entry an _id.
RawAmounts == {0, 50, 60}
RawDates == {0, 1, 2}
RawLedgers ==
  UNION {[1..n -> [amount : RawAmounts, date : RawDates]] : n \in 0..MaxRaw}

\* new mongoose.Types.ObjectId() for each surviving entry, in ledger order.
NewObjectIds(unique, firstId) ==
  [i \in 1..Len(unique) |->
     [_id |-> firstId + i - 1,
      amount |-> unique[i].amount,
      date |-> unique[i].date]]

\* The array the function returns as `payments`: the entries with their
\* identifiers, after the sort.
sanitizedPayments(dailyPayment, firstId) ==
  SortByDate(NewObjectIds(UniquePayments(dailyPayment, {}), firstId))

\* What one call returns, or that it threw.
sanitizeOutcome(dailyPayment, firstId) ==
  LET s == sanitizeDailyPayments(dailyPayment)
  IN IF s.threw
     THEN [threw |-> TRUE, payments |-> <<>>, total |-> 0, changed |-> FALSE]
     ELSE [threw |-> FALSE,
           payments |-> sanitizedPayments(dailyPayment, firstId),
           total |-> s.total,
           changed |-> s.changed]

SanitizeProbe(ledger) ==
  [fn |-> "sanitizeDailyPayments", ledger |-> ledger, nextId |-> 1,
   outputs |-> <<>>]

InitSanitize ==
  /\ loan = NewLoan("daily")
  /\ now = 0
  /\ holidays = {}
  /\ remittance = {}
  /\ res = Respond("submit", 201)
  /\ cso = NewCso
  /\ probe \in {SanitizeProbe(ledger) : ledger \in RawLedgers}

\* One call of sanitizeDailyPayments(loan) on the document: when the ledger
\* changed the document takes the sanitized entries, which the schema casts
\* (no _id is kept); a throw leaves the document as it was.
ApplySanitize ==
  /\ probe.fn = "sanitizeDailyPayments"
  /\ Len(probe.outputs) < 2
  /\ LET out == sanitizeOutcome(probe.ledger, probe.nextId)
     IN probe' = [probe EXCEPT
          !.outputs = Append(@, out),
          !.ledger = IF out.changed
                     THEN sanitizeDailyPayments(probe.ledger).payments
                     ELSE @,
          !.nextId = @ + Len(UniquePayments(probe.ledger, {}))]
  /\ UNCHANGED <<loan, now, holidays, remittance, res, cso>>

NextSanitize == ApplySanitize

SpecSanitize == InitSanitize /\ [][NextSanitize]_vars

\* ------------------------------------------------------- payment allocator
RECURSIVE SkipWeekend(_)
SkipWeekend(t) ==
  IF isWeekend(t) THEN SkipWeekend(t + TicksPerDay) ELSE t

getNextBusinessDay(date) == SkipWeekend(normalizeDate(date) + TicksPerDay)

\* The day ensureScheduleEntry looks for: the target's day, or the next
\* business day when the target is on a weekend.
ScheduleDate(targetDate) ==
  IF isWeekend(normalizeDate(targetDate))
  THEN getNextBusinessDay(normalizeDate(targetDate))
  ELSE normalizeDate(targetDate)

\* Position of the entry ensureScheduleEntry returns, in the schedule it
\* leaves: the first entry of that day, or the one it pushes.
EntryIndex(schedule, targetDate) ==
  LET existing == {i \in 1..Len(schedule) :
                     datesAreSameDay(schedule[i].date,
                                     ScheduleDate(targetDate))}
  IN IF existing = {} THEN Len(schedule) + 1
     ELSE CHOOSE i \in existing : \A j \in existing : i <= j

\* A variant of ensureScheduleEntry that hands the entry of the day back
\* with nothing paid on it.
ensureScheduleEntryResetting(schedule, targetDate) ==
  LET i == EntryIndex(schedule, targetDate)
  IN IF i <= Len(schedule)
     THEN [schedule EXCEPT ![i].date = normalizeDate(@), ![i].amountPaid = 0]
     ELSE Append(schedule, [date |-> ScheduleDate(targetDate),
                            status |-> "pending",
                            amountPaid |-> 0])

ensureScheduleEntry(schedule, targetDate) ==
  LET i == EntryIndex(schedule, targetDate)
  IN IF i <= Len(schedule)
     THEN [schedule EXCEPT ![i].date = normalizeDate(@)]
     ELSE Append(schedule, [date |-> ScheduleDate(targetDate),
                            status |-> "pending",
                            amountPaid |-> 0])

\* A variant of finalizeEntryStatus that marks an entry within the tolerance
\* 'paid' without raising its amountPaid to the installment.
finalizeEntryStatusKeepingAmount(entry, index, dailyAmount, roundsUp) ==
  LET paid == entry.amountPaid
  IN IF entry.status = "holiday" THEN entry
     ELSE IF paid > dailyAmount - 1 \/ (paid = dailyAmount - 1 /\ roundsUp)
     THEN [entry EXCEPT !.status = "paid"]
     ELSE IF paid > 1
     THEN [entry EXCEPT !.status = "partial"]
     ELSE [entry EXCEPT
             !.amountPaid = 0,
             !.status = IF entry.status = "submitted" THEN "submitted"
                        ELSE IF index = 0 /\ entry.status = "approved"
                        THEN "approved"
                        ELSE "pending"]

\* paid >= dailyAmount - tolerance and paid > tolerance, tolerance 0.01.  The
\* first comparison is between floating-point numbers: when paid is exactly
\* 0.01 below dailyAmount its outcome depends on how dailyAmount - 0.01
\* rounds, which roundsUp stands for.
finalizeEntryStatus(entry, index, dailyAmount, roundsUp) ==
  LET paid == entry.amountPaid
  IN IF entry.status = "holiday" THEN entry
     ELSE IF paid > dailyAmount - 1 \/ (paid = dailyAmount - 1 /\ roundsUp)
     THEN [entry EXCEPT !.amountPaid = dailyAmount, !.status = "paid"]
     ELSE IF paid > 1
     THEN [entry EXCEPT !.status = "partial"]
     ELSE [entry EXCEPT
             !.amountPaid = 0,
             !.status = IF entry.status = "submitted" THEN "submitted"
                        ELSE IF index = 0 /\ entry.status = "approved"
                        THEN "approved"
                        ELSE "pending"]

\* The while loop of syncLoanRepaymentSchedule for one payment.
RECURSIVE AllocatePayment(_, _, _, _)
AllocatePayment(schedule, remainingAmount, cursorDate, dailyAmount) ==
  IF remainingAmount <= 0 THEN schedule
  ELSE
    LET ensured == ensureScheduleEntry(schedule, cursorDate)
        i == EntryIndex(schedule, cursorDate)
        entry == ensured[i]
        capacity == dailyAmount - entry.amountPaid
        applied == IF remainingAmount < capacity
                   THEN remainingAmount ELSE capacity
    IN IF entry.status = "holiday" \/ capacity <= 0
       THEN AllocatePayment(ensured, remainingAmount,
                            getNextBusinessDay(cursorDate), dailyAmount)
       ELSE AllocatePayment(
              [ensured EXCEPT ![i].amountPaid = @ + applied],
              remainingAmount - applied,
              IF remainingAmount - applied > 0
              THEN getNextBusinessDay(cursorDate) ELSE cursorDate,
              dailyAmount)

\* The for loop over the sanitized payments.
RECURSIVE AllocatePayments(_, _, _)
AllocatePayments(schedule, payments, dailyAmount) ==
  IF payments = <<>> THEN schedule
  ELSE AllocatePayments(
         AllocatePayment(schedule, Head(payments).amount,
                         Head(payments).date, dailyAmount),
         Tail(payments), dailyAmount)

syncLoanRepaymentSchedule(l, store, today, roundsUp) ==
  LET dailyAmount == l.dailyAmount
      sanitized == sanitizeDailyPayments(l.dailyPayment)
      payments == SortByDate(
        [i \in 1..Len(sanitized.payments) |->
           [amount |-> sanitized.payments[i].amount,
            date |-> normalizeDate(sanitized.payments[i].date)]])
      fallbackStartDate ==
        IF l.disbursedAt # NoDate THEN normalizeDate(l.disbursedAt)
        ELSE IF payments # <<>> THEN payments[1].date
        ELSE today
      initial == initializeRepaymentSchedule(l, fallbackStartDate, store)
      schedule == SortByDate(AllocatePayments(initial, payments, dailyAmount))
      maxDate == IF schedule # <<>>
                 THEN schedule[Len(schedule)].date
                 ELSE addDays(fallbackStartDate, WORKING_DAYS_COUNT)
      holidayMaps == resolveHolidayMap(store, fallbackStartDate, maxDate)
      final == [i \in 1..Len(schedule) |->
                  finalizeEntryStatus(
                    IF schedule[i].status # "holiday"
                    THEN applyHolidayStatus(schedule[i], holidayMaps)
                    ELSE schedule[i],
                    i - 1, dailyAmount, roundsUp)]
  IN IF dailyAmount <= 0 \/ sanitized.threw
     THEN [threw |-> TRUE, schedule |-> <<>>, amountPaidSoFar |-> 0]
     ELSE [threw |-> FALSE, schedule |-> final,
           amountPaidSoFar |-> SumAmountPaid(final)]

\* ---------------------------------------------- allocator called on its own
\* Loans as approval and disbursement leave them, on the epoch day: approved
\* amounts for which the installment is 1.00, holidays of the first Friday
\* and, recurring, of the first Monday.
SyncApproved == [daily |-> 2000, weekly |-> 455]
SyncAmounts == {1, 99, 100, 250}
SyncDates == {0, TicksPerDay, 2 * TicksPerDay}
SyncHolidays ==
  {[holiday |-> TicksPerDay, isRecurring |-> FALSE],
   [holiday |-> 4 * TicksPerDay, isRecurring |-> TRUE]}
SyncLedgers ==
  UNION {[1..n -> [amount : SyncAmounts, date : SyncDates]] : n \in 0..MaxRaw}

\* The document after PATCH approve on `today`.
ApprovedLoan(loanType, amountApproved, today) ==
  LET interest == RoundDiv(amountApproved * DEFAULT_INTEREST_RATE_PCT, 100)
      amountToBePaid == amountApproved + interest
      repaymentCount == IF loanType = "weekly"
                        THEN WEEKLY_INSTALLMENT_COUNT
                        ELSE INSTALLMENT_DAYS_COUNT
  IN [NewLoan(loanType) EXCEPT
        !.status = "approved",
        !.callChecks = [k \in CallKeys |-> TRUE],
        !.amountApproved = amountApproved,
        !.amountToBePaid = amountToBePaid,
        !.dailyAmount = RoundDiv(amountToBePaid, repaymentCount),
        !.repaymentSchedule = generateRepaymentSchedule(today, loanType)]

\* The document after PATCH disburse on `today` with the holidays of `store`.
DisbursedLoan(approved, today, store) ==
  [approved EXCEPT
     !.amountDisbursed = approved.amountApproved,
     !.status = "active loan",
     !.disbursedAt = today,
     !.amountPaidSoFar = 0,
     !.repaymentSchedule = initializeRepaymentSchedule(approved, today, store)]

SyncProbe == [fn |-> "syncLoanRepaymentSchedule", outputs |-> <<>>]

\* A disbursed loan whose ledger holds payments, and a holiday store that
\* may have grown since the disbursement.
InitSync ==
  /\ now = 0
  /\ holidays \in SUBSET SyncHolidays
  /\ \E loanType \in {"daily", "weekly"}, ledger \in SyncLedgers,
        atDisbursement \in SUBSET holidays :
       loan = [DisbursedLoan(
                 ApprovedLoan(loanType, SyncApproved[loanType], now),
                 now, atDisbursement)
               EXCEPT !.dailyPayment = ledger]
  /\ remittance = {}
  /\ res = Respond("disburse", 200)
  /\ cso = NewCso
  /\ probe = SyncProbe

\* One call of syncLoanRepaymentSchedule(loan); no reachable route saves what
\* it computes, so only the returned value is kept.
ApplySync ==
  /\ probe.fn = "syncLoanRepaymentSchedule"
  /\ probe.outputs = <<>>
  /\ \E roundsUp \in BOOLEAN :
       probe' = [probe EXCEPT !.outputs =
                   <<syncLoanRepaymentSchedule(loan, holidays, now, roundsUp)>>]
  /\ UNCHANGED <<loan, now, holidays, remittance, res, cso>>

NextSync == ApplySync

SpecSync == InitSync /\ [][NextSync]_vars

\* ------------------------------------------- the loan and the calendar
RemittanceCollected == {100}
RemittancePaid == {0, 100}

\* The loan's way to repayment together with the holiday store and the
\* agent's remittance ledger, all within one day (the clock stands).
NextCalendar ==
  \/ \E update \in CallCheckUpdates : CallChecks(update)
  \/ \E amountApproved \in ApproveAmounts : ApproveLoan(amountApproved)
  \/ DisburseLoan
  \/ \E amount \in PayAmounts, date \in PayDates :
       RecordPayment(amount, date)
  \/ \E holiday \in HolidayInputs, isRecurring \in BOOLEAN :
       AddHoliday(holiday, isRecurring)
  \/ \E date \in RemittanceDates, amountCollected \in RemittanceCollected,
        amountPaid \in RemittancePaid :
       PostRemittance(date, amountCollected, amountPaid)

SpecCalendar == Init /\ [][NextCalendar]_vars

\* ------------------------------------- schedule generator called on its own
\* Start dates: every tick of the first MaxStartDay + 1 days, which has each
\* day of the week at each time of day, and Tuesday 2024-01-02, day 19724.
GenerateStarts ==
  (0..((MaxStartDay + 1) * TicksPerDay - 1)) \cup {19724 * TicksPerDay}

GenerateProbe(startDate) ==
  [fn |-> "generateRepaymentSchedule", startDate |-> startDate,
   loanType |-> "daily", outputs |-> <<>>]

InitGenerate ==
  /\ loan = NewLoan("daily")
  /\ now = 0
  /\ holidays = {}
  /\ remittance = {}
  /\ res = Respond("submit", 201)
  /\ cso = NewCso
  /\ probe \in {GenerateProbe(startDate) : startDate \in GenerateStarts}

ApplyGenerate ==
  /\ probe.fn = "generateRepaymentSchedule"
  /\ probe.outputs = <<>>
  /\ probe' = [probe EXCEPT !.outputs =
                 <<generateRepaymentSchedule(probe.startDate,
                                             probe.loanType)>>]
  /\ UNCHANGED <<loan, now, holidays, remittance, res, cso>>

NextGenerate == ApplyGenerate

SpecGenerate == InitGenerate /\ [][NextGenerate]_vars

\* ------------------------------------------------------- loan submission
\* Inputs of the admission check: targets in 0.01 units as the admin sends
\* them, payments against an instalment of 20.00, request bodies.
TargetInputs == {-100, 0, 1049, 2000}
AdmissionApprovals == {40000}
AdmissionPayAmounts == {1000, 1999}
SubmitBodies == [complete : BOOLEAN, duplicateLoanId : BOOLEAN]

\* PATCH /api/csos/defaulting-target: Math.round to a whole currency unit.
SetDefaultingTarget(defaultingTarget) ==
  /\ IF defaultingTarget < 0
     THEN /\ res' = Respond("defaulting-target", 400)
          /\ UNCHANGED cso
     ELSE /\ cso' = [cso EXCEPT
               !.defaultingTarget = RoundDiv(defaultingTarget, 100) * 100]
          /\ res' = Respond("defaulting-target", 200)
  /\ UNCHANGED <<loan, now, holidays, remittance, probe>>

getLocalToday == normalizeDate(now)

\* The "today" of the admission test: Friday when the day is a Saturday or a Sunday.
SelectedDate(today) ==
  IF GetDay(normalizeDate(today)) = 6 THEN normalizeDate(today) - TicksPerDay
  ELSE IF GetDay(normalizeDate(today)) = 0
  THEN normalizeDate(today) - 2 * TicksPerDay
  ELSE normalizeDate(today)

getWeekdaysBetweenSync(startDate, endDate, holidaySet) ==
  Cardinality({k \in 0..(Day(endDate) - Day(startDate) + 1) :
                 LET current == startDate + k * TicksPerDay
                 IN /\ current <= normalizeDate(endDate)
                    /\ GetDay(current) # 0
                    /\ GetDay(current) # 6
                    /\ normalizeDate(current) \notin holidaySet})

\* The outstandingDue the submission computes for one active loan.
outstandingDue(l, normalizedSelectedDate, holidaySet) ==
  LET scheduleCountTillToday ==
        Cardinality({i \in 1..Len(l.repaymentSchedule) :
                       normalizeDate(l.repaymentSchedule[i].date)
                         <= normalizedSelectedDate})
      amountPaid == l.amountPaidSoFar
      daysElapsed == getWeekdaysBetweenSync(addDays(l.disbursedAt, 1),
                                            normalizedSelectedDate, holidaySet)
      scheduleDaysDue == IF scheduleCountTillToday > 1
                         THEN scheduleCountTillToday - 1 ELSE 0
      daysCounted == IF daysElapsed < scheduleDaysDue
                     THEN daysElapsed ELSE scheduleDaysDue
      expectedRepayment ==
        IF scheduleCountTillToday > 22 THEN l.amountToBePaid
        ELSE l.dailyAmount * daysCounted
  IN IF expectedRepayment > amountPaid
     THEN expectedRepayment - amountPaid ELSE 0

\* The loans.forEach of the submission over the agent's loans that are
\* 'active loan' and disbursed; of the agent's loans only `loan` can be.
totalOutstanding ==
  LET due == outstandingDue(loan, SelectedDate(getLocalToday),
                            {normalizeDate(h.holiday) : h \in holidays})
  IN IF loan.status = "active loan" /\ loan.disbursedAt # NoDate /\ due > 1
     THEN due ELSE 0

\* A variant of exceedsTarget that also refuses at the target itself.
reachesTarget(total, defaultingTarget) == total >= defaultingTarget

exceedsTarget(total, defaultingTarget) == total > defaultingTarget

\* POST /api/loans
SubmitLoan(body) ==
  /\ cso.loans < MaxLoans
  /\ IF /\ cso.defaultingTarget > 0
        /\ exceedsTarget(totalOutstanding, cso.defaultingTarget)
     THEN /\ res' = Respond("submit", 403)
          /\ UNCHANGED cso
     ELSE IF ~body.complete
     THEN /\ res' = Respond("submit", 400)
          /\ UNCHANGED cso
     ELSE IF body.duplicateLoanId
     THEN /\ res' = Respond("submit", 409)
          /\ UNCHANGED cso
     ELSE /\ cso' = [cso EXCEPT !.loans = @ + 1]
          /\ res' = Respond("submit", 201)
  /\ UNCHANGED <<loan, now, holidays, remittance, probe>>

\* An agent with a loan disbursed on the epoch day, with or without a holiday
\* on the day after.
InitAdmission ==
  /\ now = 0
  /\ holidays \in SUBSET {[holiday |-> TicksPerDay, isRecurring |-> FALSE]}
  /\ loan \in {NewLoan("daily")} \cup
               {DisbursedLoan(ApprovedLoan("daily", amountApproved, now),
                              now, holidays) :
                  amountApproved \in AdmissionApprovals}
  /\ remittance = {}
  /\ res = Respond("submit", 201)
  /\ cso = NewCso
  /\ probe = NoProbe

NextAdmission ==
  \/ Tick
  \/ \E defaultingTarget \in TargetInputs :
       SetDefaultingTarget(defaultingTarget)
  \/ \E amount \in AdmissionPayAmounts : RecordPayment(amount, now)
  \/ \E body \in SubmitBodies : SubmitLoan(body)

SpecAdmission == InitAdmission /\ [][NextAdmission]_vars

\* ------------------------------------- delinquency figures on an as-of day
\* Loans disbursed on the epoch day (a Thursday) or on the Friday one year
\* later, read up to MaxAsOfDay days after the disbursement; one payment at
\* most, made on the day of the disbursement; a Friday holiday, and a
\* recurring holiday stored for Monday 1970-01-05.
MaxAsOfDay == 62
DisbursementDays == {0, DaysPerYear}
ClassifierPayAmounts == {100, 400}
ClassifierHolidays ==
  {[holiday |-> TicksPerDay, isRecurring |-> FALSE],
   [holiday |-> 4 * TicksPerDay, isRecurring |-> TRUE]}
ClassifierLedgers(date) ==
  {<<>>} \cup {<<[amount |-> a, date |-> date]>> : a \in ClassifierPayAmounts}

\* A variant of scheduleRunsOut that waits for one entry more.
scheduleRunsOutLater(scheduleCountTillToday) ==
  scheduleCountTillToday > WORKING_DAYS_COUNT

\* if (scheduleCountTillToday > 22): every entry of the schedule is due.
scheduleRunsOut(scheduleCountTillToday) == scheduleCountTillToday > 22

\* loans.map of GET /api/csos/loans/outstanding: the metrics of one loan.
outstandingMetrics(l, normalizedSelectedDate, holidaySet) ==
  LET dailyAmount == l.dailyAmount
      amountPaid == l.amountPaidSoFar
      amountToBePaid == l.amountToBePaid
      scheduleCountTillToday ==
        Cardinality({i \in 1..Len(l.repaymentSchedule) :
                       normalizeDate(l.repaymentSchedule[i].date)
                         <= normalizedSelectedDate})
      daysElapsed == getWeekdaysBetweenSync(
                       addDays(normalizeDate(l.disbursedAt), 1),
                       normalizedSelectedDate, holidaySet)
      scheduleDaysDue == IF scheduleCountTillToday > 1
                         THEN scheduleCountTillToday - 1 ELSE 0
      daysCounted == IF daysElapsed < scheduleDaysDue
                     THEN daysElapsed ELSE scheduleDaysDue
      expectedRepayment == IF scheduleRunsOut(scheduleCountTillToday)
                           THEN amountToBePaid
                           ELSE dailyAmount * daysCounted
  IN [amountPaid |-> amountPaid,
      dailyAmount |-> dailyAmount,
      expectedRepayment |-> expectedRepayment,
      outstandingDue |-> IF expectedRepayment > amountPaid
                         THEN expectedRepayment - amountPaid ELSE 0]

\* GET /api/csos/loans/outstanding, for the agent's one loan. results holds
\* the metrics of the loans found, loans those above 0.01.
GetOutstanding ==
  /\ probe.fn = "classifier"
  /\ LET found == IF loan.status = "active loan" /\ loan.disbursedAt # NoDate
                  THEN <<loan>> ELSE <<>>
         results == [i \in 1..Len(found) |->
                       outstandingMetrics(
                         found[i], SelectedDate(getLocalToday),
                         {normalizeDate(h.holiday) : h \in holidays})]
         filtered == SelectSeq(results, LAMBDA m : m.outstandingDue > 1)
     IN probe' = [fn |-> "classifier", route |-> "outstanding",
                  results |-> results,
                  loans |-> filtered,
                  totalOutstanding |->
                    IF filtered = <<>> THEN 0 ELSE filtered[1].outstandingDue]
  /\ res' = Respond("outstanding", 200)
  /\ UNCHANGED <<loan, now, holidays, remittance, cso>>

\* GET /api/csos/loans/counts, for the agent's one loan.
GetCounts ==
  /\ probe.fn = "classifier"
  /\ LET thirtyDaysAgo == now - 30 * TicksPerDay
         sixtyDaysAgo == now - 60 * TicksPerDay
         active == loan.status = "active loan"
         dated == active /\ loan.disbursedAt # NoDate
         dAt == loan.disbursedAt
         due == outstandingDue(loan, SelectedDate(getLocalToday),
                               {normalizeDate(h.holiday) : h \in holidays})
         One(condition) == IF condition THEN 1 ELSE 0
     IN probe' = [fn |-> "classifier", route |-> "counts",
                  counts |->
                    [all |-> 1,
                     active |-> One(active),
                     defaults |-> One(dated /\ due > 1),
                     overdue |-> One(dated /\ dAt < thirtyDaysAgo
                                           /\ dAt >= sixtyDaysAgo),
                     recovery |-> One(dated /\ dAt < sixtyDaysAgo),
                     paid |-> One(loan.status = "fully paid"),
                     pending |-> One(loan.status = "waiting for approval"),
                     rejected |-> One(loan.status = "rejected")]]
  /\ res' = Respond("counts", 200)
  /\ UNCHANGED <<loan, now, holidays, remittance, cso>>

ClassifierProbe == [fn |-> "classifier", route |-> "none"]

\* An active loan some days after its disbursement, with the holidays that
\* were stored when it was disbursed.
InitClassifier ==
  /\ holidays \in SUBSET ClassifierHolidays
  /\ \E loanType \in {"daily", "weekly"}, day \in DisbursementDays,
        age \in 0..MaxAsOfDay :
       /\ now = (day + age) * TicksPerDay
       /\ \E ledger \in ClassifierLedgers(day * TicksPerDay) :
            loan = [DisbursedLoan(
                      ApprovedLoan(loanType, SyncApproved[loanType],
                                   day * TicksPerDay),
                      day * TicksPerDay, holidays)
                    EXCEPT !.dailyPayment = ledger,
                           !.amountPaidSoFar = SumAmounts(ledger)]
  /\ remittance = {}
  /\ res = Respond("payment", 200)
  /\ cso = NewCso
  /\ probe = ClassifierProbe

NextClassifier ==
  \/ GetOutstanding
  \/ GetCounts

SpecClassifier == InitClassifier /\ [][NextClassifier]_vars

\* ------------------------------------ allocator called again after a payment
\* Payments of 0.01, 0.50, 0.99 and 2.50 on 1.00 installments, at two times
\* of the epoch day and on the day after.
ResyncAmounts == {1, 50, 99, 250}
ResyncDates == {0, 1, TicksPerDay}
ResyncLedgers ==
  {<<>>} \cup {<<[amount |-> a, date |-> d]>> :
                 a \in ResyncAmounts, d \in ResyncDates}

\* roundsUp is the outcome of paid >= dailyAmount - 0.01 at the boundary: the
\* same operands compare the same way in every run.
ResyncProbe(roundsUp) ==
  [fn |-> "resync", roundsUp |-> roundsUp, outputs |-> <<>>]

InitResync ==
  /\ now = 0
  /\ holidays \in SUBSET SyncHolidays
  /\ \E loanType \in {"daily", "weekly"}, ledger \in ResyncLedgers,
        atDisbursement \in SUBSET holidays :
       loan = [DisbursedLoan(
                 ApprovedLoan(loanType, SyncApproved[loanType], now),
                 now, atDisbursement)
               EXCEPT !.dailyPayment = ledger,
                      !.amountPaidSoFar = SumAmounts(ledger)]
  /\ remittance = {}
  /\ res = Respond("disburse", 200)
  /\ cso = NewCso
  /\ probe \in {ResyncProbe(roundsUp) : roundsUp \in BOOLEAN}

\* One call of syncLoanRepaymentSchedule(loan), kept with the ledger it read.
RunSync ==
  /\ probe.fn = "resync"
  /\ Len(probe.outputs) < 2
  /\ probe.outputs # <<>> => probe.outputs[1].ledger # loan.dailyPayment
  /\ probe' = [probe EXCEPT !.outputs =
                 Append(@, [ledger |-> loan.dailyPayment,
                            result |-> syncLoanRepaymentSchedule(
                                         loan, holidays, now,
                                         probe.roundsUp)])]
  /\ UNCHANGED <<loan, now, holidays, remittance, res, cso>>

\* A payment recorded after the first call, on the ledger that call read.
PayAfterSync(amount, date) ==
  /\ probe.fn = "resync"
  /\ Len(probe.outputs) = 1
  /\ probe.outputs[1].ledger = loan.dailyPayment
  /\ RecordPayment(amount, date)

NextResync ==
  \/ RunSync
  \/ \E amount \in ResyncAmounts, date \in ResyncDates :
       PayAfterSync(amount, date)

SpecResync == InitResync /\ [][NextResync]_vars

\* ------------------------------------------- requests on one loan in flight
\* Each request reads the loan (await Loan.findById), works on the document
\* it read, and saves it (await loan.save()); other requests run between the
\* two awaits.  probe holds the requests and the version (__v) of the stored
\* document: loanSchema leaves versionKey at its default, and a save that
\* $sets a whole array, as every save of a sanitized ledger does, asks for
\* the version it read and increments it.
MaxRequests == 2
Requests == 1..MaxRequests
RequestAmounts == {55, 60}
RequestDates == {0, 1}
OpeningLedgers == {<<>>, <<[amount |-> 50, date |-> 0]>>}

NoDocument == <<>>

IdleRequest ==
  [op |-> "none", pc |-> "idle", amount |-> 0, date |-> 0,
   doc |-> NoDocument, version |-> 0, code |-> 0]

RequestsProbe(opening) ==
  [fn |-> "requests", version |-> 0, opening |-> opening,
   requests |-> [r \in Requests |-> IdleRequest]]

\* A daily loan of 1.10 to repay, disbursed on the epoch day.
InitRequests ==
  /\ now = 0
  /\ holidays = {}
  /\ \E ledger \in OpeningLedgers :
       /\ loan = [DisbursedLoan(ApprovedLoan("daily", 100, now), now, {})
                  EXCEPT !.dailyPayment = ledger,
                         !.amountPaidSoFar = SumAmounts(ledger)]
       /\ probe = RequestsProbe(SumAmounts(ledger))
  /\ remittance = {}
  /\ res = Respond("disburse", 200)
  /\ cso = NewCso

Answer(r, code) ==
  [probe EXCEPT !.requests[r].pc = "done", !.requests[r].code = code]

\* A variant of versionMatches for a save that never asks for the version.
versionIgnored(readVersion, storedVersion) == TRUE

\* The __v in the conditions of the update loan.save() sends: no document
\* matches when another save incremented it, and save throws a VersionError.
versionMatches(readVersion, storedVersion) == readVersion = storedVersion

\* POST /api/loans/:id/payments up to the return of Loan.findById.
FindLoanForPayment(r, amount, date) ==
  /\ probe.fn = "requests"
  /\ probe.requests[r].pc = "idle"
  /\ IF amount <= 0 \/ hasRemitted(remittance, date) \/ isWeekend(date)
     THEN /\ probe' = [probe EXCEPT !.requests[r] =
                         [IdleRequest EXCEPT !.op = "payment", !.pc = "done",
                                             !.amount = amount,
                                             !.date = date, !.code = 400]]
          /\ res' = Respond("payment", 400)
     ELSE /\ probe' = [probe EXCEPT !.requests[r] =
                         [op |-> "payment", pc |-> "found",
                          amount |-> amount, date |-> date,
                          doc |-> loan, version |-> probe.version,
                          code |-> 0]]
          /\ UNCHANGED res
  /\ UNCHANGED <<loan, now, holidays, remittance, cso>>

\* POST /api/loans/:id/payments from the return of Loan.findById to the
\* answer: the balance test, the push and the sanitization on the document
\* that was read, then the save of the paths they modified.
SavePayment(r) ==
  /\ probe.fn = "requests"
  /\ probe.requests[r].pc = "found"
  /\ probe.requests[r].op = "payment"
  /\ LET request == probe.requests[r]
         doc == request.doc
         amountToBePaid == doc.amountToBePaid
         outstandingBalance == amountToBePaid - doc.amountPaidSoFar
         pushed == Append(doc.dailyPayment,
                          [amount |-> request.amount, date |-> request.date])
         sanitized == sanitizeDailyPayments(pushed)
         updatedPaid == sanitized.total
     IN IF \/ /\ amountToBePaid > 0
              /\ request.amount > (IF outstandingBalance > 0
                                   THEN outstandingBalance ELSE 0)
           \/ sanitized.threw
           \/ ~versionMatches(request.version, probe.version)
        THEN /\ probe' = Answer(r, 400)
             /\ res' = Respond("payment", 400)
             /\ UNCHANGED loan
        ELSE /\ \E near \in WithinTolerance(updatedPaid - amountToBePaid) :
                  loan' = [loan EXCEPT
                    !.dailyPayment = IF sanitized.changed
                                     THEN sanitized.payments ELSE pushed,
                    !.amountPaidSoFar = updatedPaid,
                    !.status = IF amountToBePaid > 0 /\ near
                               THEN "fully paid" ELSE doc.status]
             /\ probe' = [Answer(r, 200) EXCEPT !.version = @ + 1]
             /\ res' = Respond("payment", 200)
  /\ UNCHANGED <<now, holidays, remittance, cso>>

\* GET /api/loans/:id and GET /api/loans/:id/repayment/sync up to the return
\* of Loan.findById.
FindLoanForRead(r, op) ==
  /\ probe.fn = "requests"
  /\ probe.requests[r].pc = "idle"
  /\ probe' = [probe EXCEPT !.requests[r] =
                 [IdleRequest EXCEPT !.op = op, !.pc = "found",
                                     !.doc = loan,
                                     !.version = probe.version]]
  /\ UNCHANGED <<loan, now, holidays, remittance, res, cso>>

\* The read handlers from the return of Loan.findById to the answer: the
\* sanitization of the document that was read and, when it changed the
\* ledger, the save.
SaveReadRepair(r) ==
  /\ probe.fn = "requests"
  /\ probe.requests[r].pc = "found"
  /\ probe.requests[r].op \in {"get-loan", "repayment-sync"}
  /\ LET request == probe.requests[r]
         sanitized == sanitizeDailyPayments(request.doc.dailyPayment)
     IN IF sanitized.threw
        THEN /\ probe' = Answer(r, 400)
             /\ res' = Respond(request.op, 400)
             /\ UNCHANGED loan
        ELSE IF ~sanitized.changed
        THEN /\ probe' = Answer(r, 200)
             /\ res' = Respond(request.op, 200)
             /\ UNCHANGED loan
        ELSE IF ~versionMatches(request.version, probe.version)
        THEN /\ probe' = Answer(r, 400)
             /\ res' = Respond(request.op, 400)
             /\ UNCHANGED loan
        ELSE /\ loan' = [loan EXCEPT
                           !.dailyPayment = sanitized.payments,
                           !.amountPaidSoFar = sanitized.total]
             /\ probe' = [Answer(r, 200) EXCEPT !.version = @ + 1]
             /\ res' = Respond(request.op, 200)
  /\ UNCHANGED <<now, holidays, remittance, cso>>

NextRequests ==
  \/ \E r \in Requests, amount \in RequestAmounts, date \in RequestDates :
       FindLoanForPayment(r, amount, date)
  \/ \E r \in Requests : SavePayment(r)
  \/ \E r \in Requests, op \in {"get-loan", "repayment-sync"} :
       FindLoanForRead(r, op)
  \/ \E r \in Requests : SaveReadRepair(r)

SpecRequests == InitRequests /\ [][NextRequests]_vars

\* ------------------------------------------- agent delinquency aggregation
\* jobs/csoDelinquencyJob.js schedules updateCsoDelinquencyRecords of
\* services/csoDelinquencyService, which is not among the sources: the
\* service is written down here from the specification (4.4 and 4.6).

\* Day of the year on which each month starts, in a year of DaysPerYear days.
MonthStarts == <<0, 31, 59, 90, 120, 151, 181, 212, 243, 273, 304, 334>>

getMonth(t) ==
  Cardinality({m \in 1..12 : MonthStarts[m] <= Day(t) % DaysPerYear})

getFullYear(t) == 1970 + (Day(t) \div DaysPerYear)

\* csoSchema.overdueRecords and csoSchema.recoveryRecord, empty by default.
NewCsoRecords == NewCso @@ [overdueRecords |-> <<>>, recoveryRecord |-> <<>>]

\* The bucket of 4.4: the age in days of the earliest stored schedule entry
\* on or before the as-of date that is 'pending', 'partial' or 'approved'.
classifyBucket(l, asOfDate) ==
  LET unresolved == {i \in 1..Len(l.repaymentSchedule) :
                       /\ normalizeDate(l.repaymentSchedule[i].date)
                            <= normalizeDate(asOfDate)
                       /\ l.repaymentSchedule[i].status
                            \in {"pending", "partial", "approved"}}
      earliest == CHOOSE i \in unresolved :
                    \A j \in unresolved : l.repaymentSchedule[i].date
                                            <= l.repaymentSchedule[j].date
      daysPastDue == Day(asOfDate) - Day(l.repaymentSchedule[earliest].date)
  IN IF unresolved = {} \/ daysPastDue < 30 THEN "current"
     ELSE IF daysPastDue < 60 THEN "overdue"
     ELSE "recovery"

\* A variant of replaceMonthlyRecord that appends without deleting.
appendMonthlyRecord(records, year, month, value) ==
  Append(records, [month |-> month, year |-> year, value |-> value])

\* 4.6: the entry of {year, month} is deleted, then the fresh one inserted.
replaceMonthlyRecord(records, year, month, value) ==
  Append(SelectSeq(records, LAMBDA e : ~(e.year = year /\ e.month = month)),
         [month |-> month, year |-> year, value |-> value])

\* updateCsoDelinquencyRecords for the one agent and the agent's one loan.
updateCsoDelinquencyRecords(agent, l, asOf, store) ==
  LET isActive == l.status = "active loan" /\ l.disbursedAt # NoDate
      due == IF isActive
             THEN outstandingMetrics(
                    l, SelectedDate(asOf),
                    {normalizeDate(h.holiday) : h \in store}).outstandingDue
             ELSE 0
      bucket == IF isActive THEN classifyBucket(l, SelectedDate(asOf))
                ELSE "current"
      overdueValue == IF bucket = "overdue" THEN due ELSE 0
      recoveryValue == IF bucket = "recovery" THEN due ELSE 0
  IN [agent EXCEPT
        !.overdueRecords =
          replaceMonthlyRecord(@, getFullYear(asOf), getMonth(asOf),
                               overdueValue),
        !.recoveryRecord =
          replaceMonthlyRecord(@, getFullYear(asOf), getMonth(asOf),
                               recoveryValue)]

\* One run of the job; probe keeps whether the run found an entry of the
\* current month in place.
runCsoDelinquencyJob ==
  /\ probe.fn = "csoDelinquencyJob"
  /\ cso' = updateCsoDelinquencyRecords(cso, loan, now, holidays)
  /\ probe' = [fn |-> "csoDelinquencyJob",
               replaced |-> \E i \in 1..Len(cso.overdueRecords) :
                              /\ cso.overdueRecords[i].year = getFullYear(now)
                              /\ cso.overdueRecords[i].month = getMonth(now)]
  /\ res' = [op |-> "csoDelinquencyJob", code |-> 200,
             month |-> getMonth(now), year |-> getFullYear(now)]
  /\ UNCHANGED <<loan, now, holidays, remittance>>

\* The clock reaches the next day; the job is scheduled once a day.
NextDay ==
  /\ probe.fn = "csoDelinquencyJob"
  /\ Day(now) < MaxAsOfDay
  /\ now' = (Day(now) + 1) * TicksPerDay
  /\ UNCHANGED <<loan, holidays, remittance, res, cso, probe>>

InitJob ==
  /\ now = 0
  /\ holidays = {}
  /\ \E loanType \in {"daily", "weekly"}, ledger \in ClassifierLedgers(0) :
       loan = [DisbursedLoan(
                 ApprovedLoan(loanType, SyncApproved[loanType], 0), 0, {})
               EXCEPT !.dailyPayment = ledger,
                      !.amountPaidSoFar = SumAmounts(ledger)]
  /\ remittance = {}
  /\ res = Respond("disburse", 200)
  /\ cso = NewCsoRecords
  /\ probe = [fn |-> "csoDelinquencyJob", replaced |-> FALSE]

NextJob ==
  \/ NextDay
  \/ runCsoDelinquencyJob

SpecJob == InitJob /\ [][NextJob]_vars

\* =================================================================== claims

AllCallChecksDone == \A k \in CallKeys : loan.callChecks[k]

PaymentRecorded == res.op = "payment" /\ res.code = 200

\* C1: in every state reached after a successful recordPayment on a loan
\* that has a repayment schedule, amountPaidSoFar equals the sum of
\* amountPaid over the entries of the repayment schedule.
C1_PaidSoFarMatchesSchedule ==
  (PaymentRecorded /\ loan.repaymentSchedule # <<>>)
    => loan.amountPaidSoFar = SumAmountPaid(loan.repaymentSchedule)

\* C2: for a loan with amountToBePaid > 0, neither the sum of the payment
\* ledger nor the stored amountPaidSoFar ever exceeds amountToBePaid.
C2_LedgerWithinAmountToBePaid ==
  loan.amountToBePaid > 0
    => /\ SumAmounts(loan.dailyPayment) <= loan.amountToBePaid
       /\ loan.amountPaidSoFar <= loan.amountToBePaid

\* C3: after a successful recordPayment on a loan with amountToBePaid > 0,
\* amountPaidSoFar >= amountToBePaid - 0.01 implies status 'fully paid'.
C3_PaidUpMeansFullyPaid ==
  (PaymentRecorded /\ loan.amountToBePaid > 0
     /\ loan.amountPaidSoFar >= loan.amountToBePaid - 1)
    => loan.status = "fully paid"

\* C4: a loan's status becomes 'rejected' only from 'waiting for approval'
\* or 'edited'; rejecting an approved, active or fully paid loan fails and
\* leaves the loan unchanged.
C4_RejectedOnlyFromWaitingOrEdited ==
  [][(loan'.status = "rejected" /\ loan.status # "rejected")
       => loan.status \in {"waiting for approval", "edited"}]_vars

\* C5: 'fully paid' and 'rejected' are terminal: once a loan has one of
\* these statuses no operation changes its status.
C5_TerminalStatuses ==
  [][loan.status \in {"fully paid", "rejected"}
       => loan'.status = loan.status]_vars

\* C6: a loan reaches 'fully paid' only from 'active loan'.
C6_FullyPaidOnlyFromActive ==
  [][(loan'.status = "fully paid" /\ loan.status # "fully paid")
       => loan.status = "active loan"]_vars

\* C7: approveLoan succeeds only when the loan is 'waiting for approval' and
\* all four call checks are true; in every other case it answers with an
\* error and leaves the loan as it was.
C7_ApproveGuard ==
  [][(\E amountApproved \in ApproveAmounts : ApproveLoan(amountApproved))
       => /\ res'.code = 200
               => (loan.status = "waiting for approval" /\ AllCallChecksDone)
          /\ ~(loan.status = "waiting for approval" /\ AllCallChecksDone)
               => (res'.code = 400 /\ loan' = loan)]_vars

\* C7 witness: an approval was refused on a loan that waits for approval
\* with the agent's call made and the group leader's call still missing.
C7_Witness ==
  /\ res = Respond("approve", 400)
  /\ loan.status = "waiting for approval"
  /\ loan.callChecks["callCso"]
  /\ ~loan.callChecks["callGroupLeader"]

\* C8: disburseLoan on a loan whose status is not 'approved' answers with an
\* error and leaves the loan as it was.
C8_DisburseGuard ==
  [][(loan.status # "approved" /\ DisburseLoan)
       => (res'.code = 400 /\ loan' = loan)]_vars

\* C8 witness: a disbursement was refused on a loan that is marked for edits
\* and still carries the amount approved earlier.
C8_Witness ==
  /\ res = Respond("disburse", 400)
  /\ loan.status = "edited"
  /\ loan.amountApproved > 0

\* C9: after a successful disburseLoan the first entry of the repayment
\* schedule is dated the disbursement day (disbursedAt at midnight).
C9_ScheduleStartsAtDisbursement ==
  (res = Respond("disburse", 200))
    => /\ loan.repaymentSchedule # <<>>
       /\ loan.repaymentSchedule[1].date = normalizeDate(loan.disbursedAt)

\* C10: after a successful cso-edit the loan waits for approval with an
\* empty repayment schedule, amountPaidSoFar = 0 and an empty payment ledger.
C10_ResubmissionClearsLedger ==
  (res = Respond("cso-edit", 200))
    => /\ loan.status = "waiting for approval"
       /\ loan.repaymentSchedule = <<>>
       /\ loan.amountPaidSoFar = 0
       /\ loan.dailyPayment = <<>>

\* ------------------------------------------------------------------ C11
InLedger(amount, date) ==
  \E i \in 1..Len(loan.dailyPayment) :
    loan.dailyPayment[i] = [amount |-> amount, date |-> date]

\* C11: a payment submitted again with the same amount and the same date,
\* after its first submission was recorded, is not counted twice: the step
\* leaves the payment ledger and amountPaidSoFar as the first submission
\* left them.
C11_RepeatedPaymentNotCounted ==
  [][\A amount \in PayAmounts, date \in PayDates :
       (PaymentRecorded /\ InLedger(amount, date)
          /\ RecordPayment(amount, date))
         => /\ loan'.dailyPayment = loan.dailyPayment
            /\ loan'.amountPaidSoFar = loan.amountPaidSoFar]_vars

\* The first submission was recorded and the second one of the same payment
\* passes every check of the handler (room in the ledger, a weekday, within
\* the outstanding balance), so it reaches the sanitization.
C11_Witness ==
  /\ PaymentRecorded
  /\ Len(loan.dailyPayment) = 1
  /\ Len(loan.dailyPayment) < MaxLedger
  /\ loan.amountPaidSoFar = loan.dailyPayment[1].amount
  /\ ~isWeekend(loan.dailyPayment[1].date)
  /\ loan.amountToBePaid > 0
  /\ loan.dailyPayment[1].amount
       <= loan.amountToBePaid - loan.amountPaidSoFar

\* ------------------------------------------------------------------ C12
SanitizedOnce ==
  probe.fn = "sanitizeDailyPayments" /\ Len(probe.outputs) >= 1

SanitizedTwice ==
  probe.fn = "sanitizeDailyPayments" /\ Len(probe.outputs) = 2

\* C12: sanitization is idempotent: a second run of sanitizeDailyPayments on
\* what the first run left returns the same ledger (entries, ids, amounts,
\* dates, order), the same total, and reports changed = false.
C12_SanitizeIdempotent ==
  (SanitizedTwice /\ ~probe.outputs[1].threw)
    => /\ ~probe.outputs[2].threw
       /\ probe.outputs[2].payments = probe.outputs[1].payments
       /\ probe.outputs[2].total = probe.outputs[1].total
       /\ ~probe.outputs[2].changed

\* ------------------------------------------------------------------ C13
DistinctIds(payments) ==
  \A i, j \in 1..Len(payments) :
    i # j => payments[i]._id # payments[j]._id

OrderedByDateThenId(payments) ==
  \A i, j \in 1..Len(payments) :
    i < j => \/ payments[i].date < payments[j].date
             \/ /\ payments[i].date = payments[j].date
                /\ payments[i]._id < payments[j]._id

NoRepeatedDateAmount(payments) ==
  \A i, j \in 1..Len(payments) :
    i # j => <<payments[i].date, payments[i].amount>>
               # <<payments[j].date, payments[j].amount>>

\* C13: for every input ledger sanitizeDailyPayments returns a ledger that
\* holds only entries with an amount > 0, gives every entry an id of its
\* own, keeps one entry of each (date, amount) among those that came without
\* id, and is ordered by date ascending with ties broken by id.
C13_SanitizeOutput ==
  SanitizedOnce
    => LET out == probe.outputs[1]
       IN /\ ~out.threw
          /\ \A i \in 1..Len(out.payments) : out.payments[i].amount > 0
          /\ DistinctIds(out.payments)
          /\ NoRepeatedDateAmount(out.payments)
          /\ OrderedByDateThenId(out.payments)

\* ------------------------------------------------------------------ C14
Synced ==
  probe.fn = "syncLoanRepaymentSchedule" /\ probe.outputs # <<>>

SinglePaymentNoHolidays ==
  /\ Len(loan.dailyPayment) = 1
  /\ ~isWeekend(loan.dailyPayment[1].date)
  /\ holidays = {}

\* What the entry `offset` business days after the payment's day is to hold
\* of a payment of `amount`: full installments first, the remainder last.
RolledForward(amount, dailyAmount, offset) ==
  IF amount >= (offset + 1) * dailyAmount THEN dailyAmount
  ELSE IF amount > offset * dailyAmount THEN amount - offset * dailyAmount
  ELSE 0

RECURSIVE NthBusinessDayAfter(_, _)
NthBusinessDayAfter(date, n) ==
  IF n = 0 THEN normalizeDate(date)
  ELSE NthBusinessDayAfter(getNextBusinessDay(date), n - 1)

\* C14: a single payment of amount A dated on a business day d, with
\* installment P and no holidays, is rolled forward by
\* syncLoanRepaymentSchedule: the entries of d and of the following business
\* days hold P each, in date order, the last one the remainder ('paid' when
\* full, 'partial' otherwise), and the returned amountPaidSoFar is A.
C14_OversizedPaymentRollsForward ==
  (Synced /\ SinglePaymentNoHolidays)
    => LET out == probe.outputs[1]
           payment == loan.dailyPayment[1]
       IN /\ ~out.threw
          /\ out.amountPaidSoFar = payment.amount
          /\ \A offset \in 0..2 :
               LET expected == RolledForward(payment.amount,
                                             loan.dailyAmount, offset)
                   day == NthBusinessDayAfter(payment.date, offset)
               IN expected > 0 =>
                    \E i \in 1..Len(out.schedule) :
                      /\ out.schedule[i].date = day
                      /\ out.schedule[i].amountPaid = expected
                      /\ out.schedule[i].status =
                           IF expected = loan.dailyAmount
                           THEN "paid" ELSE "partial"

\* The scenario of the claim, which the allocator does get right: 2.50 on
\* 1.00 installments gives 1.00 paid, 1.00 paid, 0.50 partial, 2.50 in all.
C14_ScenarioHolds ==
  (Synced /\ SinglePaymentNoHolidays /\ loan.dailyPayment[1].amount = 250)
    => /\ probe.outputs[1].amountPaidSoFar = 250
       /\ \E i \in 1..Len(probe.outputs[1].schedule) :
            /\ probe.outputs[1].schedule[i].date
                 = normalizeDate(loan.dailyPayment[1].date)
            /\ probe.outputs[1].schedule[i].amountPaid = 100
            /\ probe.outputs[1].schedule[i].status = "paid"

\* ------------------------------------------------------------------ C15
\* C15: conservation: whenever syncLoanRepaymentSchedule returns, its
\* amountPaidSoFar (the sum of amountPaid over the finalized schedule) equals
\* the sum of the sanitized ledger's amounts, for every loan, ledger and
\* holiday set.
C15_Conservation ==
  (Synced /\ ~probe.outputs[1].threw)
    => probe.outputs[1].amountPaidSoFar
         = sanitizeDailyPayments(loan.dailyPayment).total

\* ------------------------------------------------------------------ C16
\* A stored holiday matches a date by its exact day, or by month and day
\* when it recurs.
HolidayMatches(h, date) ==
  IF h.isRecurring
  THEN RecurringKey(Day(h.holiday)) = RecurringKey(Day(date))
  ELSE Day(h.holiday) = Day(date)

IsStoredHoliday(date) == \E h \in holidays : HolidayMatches(h, date)

\* C16: in every reachable state every entry of the repayment schedule whose
\* date matches a stored holiday has status 'holiday' and amountPaid 0, also
\* when the holiday was added after the schedule was generated.
C16_HolidayOverride ==
  \A i \in 1..Len(loan.repaymentSchedule) :
    IsStoredHoliday(loan.repaymentSchedule[i].date)
      => /\ loan.repaymentSchedule[i].status = "holiday"
         /\ loan.repaymentSchedule[i].amountPaid = 0

\* ------------------------------------------------------------------ C18
\* C18: a recordPayment whose payment date is a Saturday, a Sunday or a
\* stored holiday is rejected and leaves the loan's ledger unchanged.
C18_NoPaymentOnNonBusinessDay ==
  [][\A amount \in PayAmounts, date \in PayDates :
       ((isWeekend(date) \/ IsStoredHoliday(date))
          /\ RecordPayment(amount, date))
         => /\ res'.code = 400
            /\ loan'.dailyPayment = loan.dailyPayment]_vars

\* ------------------------------------------------------------------ C19
RemittedOnDayOf(date) == \E r \in remittance : Day(r.date) = Day(date)

\* C19: a recordPayment dated D by an agent whose remittance ledger already
\* holds an entry of D's calendar day is rejected and leaves the loan
\* unchanged.
C19_NoPaymentAfterRemittance ==
  [][\A amount \in PayAmounts, date \in PayDates :
       (RemittedOnDayOf(date) /\ RecordPayment(amount, date))
         => /\ res'.code = 400
            /\ loan' = loan]_vars

\* A payment of a positive amount on a business day was refused because of
\* the day's remittance, on a disbursed loan.
C19_Witness ==
  /\ res = AlreadyRemitted
  /\ loan.status = "active loan"
  /\ \E date \in PayDates : ~isWeekend(date) /\ RemittedOnDayOf(date)

\* ------------------------------------------------------------------ C17
Generated ==
  probe.fn = "generateRepaymentSchedule" /\ probe.outputs # <<>>

\* The schedule holds the first `count` weekdays on or after `start`, in date
\* order, none on a Saturday or Sunday, the first entry 'approved' and the
\* others 'pending'.
FirstWeekdays(schedule, start, count) ==
  /\ Len(schedule) = count
  /\ \A i \in 1..Len(schedule) :
       /\ ~isWeekend(schedule[i].date)
       /\ schedule[i].date >= start
       /\ schedule[i].status = IF i = 1 THEN "approved" ELSE "pending"
  /\ \A i, j \in 1..Len(schedule) :
       i < j => schedule[i].date < schedule[j].date
  /\ \A d \in Day(start)..Day(schedule[Len(schedule)].date) :
       ~isWeekend(d * TicksPerDay)
         => \E i \in 1..Len(schedule) : Day(schedule[i].date) = d

\* C17: generateRepaymentSchedule(start, 'daily') returns exactly the first 22
\* weekdays on or after start, in date order, none on a Saturday or Sunday,
\* the first entry 'approved' and the others 'pending'; from Tuesday
\* 2024-01-02 the last entry is 2024-01-31, 29 days later.
C17_First22Weekdays ==
  Generated
    => /\ FirstWeekdays(probe.outputs[1], probe.startDate, 22)
       /\ probe.startDate = 19724 * TicksPerDay
            => probe.outputs[1][Len(probe.outputs[1])].date
                 = (19724 + 29) * TicksPerDay

\* C17 as the code has it: the schedule holds the first WORKING_DAYS_COUNT =
\* 23 weekdays on or after start; from Tuesday 2024-01-02 the last entry is
\* Thursday 2024-02-01, 30 days later.
C17_First23Weekdays ==
  Generated
    => /\ FirstWeekdays(probe.outputs[1], probe.startDate, WORKING_DAYS_COUNT)
       /\ probe.startDate = 19724 * TicksPerDay
            => probe.outputs[1][Len(probe.outputs[1])].date
                 = (19724 + 30) * TicksPerDay

C17_Witness ==
  /\ Generated
  /\ probe.startDate = 19724 * TicksPerDay
  /\ GetDay(probe.startDate) = 2
  /\ Len(probe.outputs[1]) = WORKING_DAYS_COUNT

\* ------------------------------------------------------------------ C20
\* The sum of outstandingDue over the agent's 'active loan' loans.
ActiveOutstanding ==
  IF loan.status = "active loan"
  THEN outstandingDue(loan, SelectedDate(now),
                      {normalizeDate(h.holiday) : h \in holidays})
  ELSE 0

OutstandingOf == probe.results[1]

OutstandingComputed ==
  /\ probe.fn = "classifier"
  /\ probe.route = "outstanding"
  /\ Len(probe.results) = 1

\* The as-of date: today, or the Friday before a weekend.
AsOfDate ==
  LET today == normalizeDate(now)
  IN IF GetDay(today) = 6 THEN today - TicksPerDay
     ELSE IF GetDay(today) = 0 THEN today - 2 * TicksPerDay
     ELSE today

EntriesDue ==
  Cardinality({i \in 1..Len(loan.repaymentSchedule) :
                 normalizeDate(loan.repaymentSchedule[i].date) <= AsOfDate})

InstallmentCount ==
  IF loan.loanType = "weekly" THEN WEEKLY_INSTALLMENT_COUNT
  ELSE INSTALLMENT_DAYS_COUNT

\* C21: for an active loan, daily or weekly, with more schedule entries dated
\* on or before the as-of date than the loan has installments (22 daily, 5
\* weekly), the outstanding-balance computation gives expectedRepayment =
\* amountToBePaid and outstandingDue = max(0, amountToBePaid -
\* amountPaidSoFar).
C21_DueInFullAfterSchedule ==
  (OutstandingComputed /\ EntriesDue > InstallmentCount)
    => /\ OutstandingOf.expectedRepayment = loan.amountToBePaid
       /\ OutstandingOf.outstandingDue =
            (IF loan.amountToBePaid > loan.amountPaidSoFar
             THEN loan.amountToBePaid - loan.amountPaidSoFar ELSE 0)

C21_Witness ==
  /\ OutstandingComputed
  /\ EntriesDue > InstallmentCount
  /\ loan.amountPaidSoFar > 0
  /\ OutstandingOf.expectedRepayment = loan.amountToBePaid

\* ------------------------------------------------------------------ C22
CountsComputed ==
  /\ probe.fn = "classifier"
  /\ probe.route = "counts"

\* The schedule with the ledger allocated to it, and its entries dated on or
\* before the as-of date that are neither paid nor a holiday.
AllocatedSchedule ==
  syncLoanRepaymentSchedule(loan, holidays, now, TRUE).schedule

OutstandingEntries ==
  {i \in 1..Len(AllocatedSchedule) :
     /\ normalizeDate(AllocatedSchedule[i].date) <= AsOfDate
     /\ AllocatedSchedule[i].status \notin {"paid", "holiday"}}

\* Days since the earliest outstanding entry was due.
EarliestOutstandingAge ==
  LET earliest == CHOOSE i \in OutstandingEntries :
                    \A j \in OutstandingEntries :
                      AllocatedSchedule[i].date <= AllocatedSchedule[j].date
  IN Day(now) - Day(AllocatedSchedule[earliest].date)

\* C22: an active loan is counted in at most one of overdue and recovery,
\* in overdue only when its earliest outstanding schedule entry is 30 to 59
\* days old, in recovery only when it is 60 days old or more, and in neither
\* when no entry on or before the as-of date is outstanding.
C22_BucketsByEarliestOutstanding ==
  (CountsComputed /\ loan.status = "active loan")
    => /\ probe.counts.overdue + probe.counts.recovery <= 1
       /\ probe.counts.overdue = 1
            => /\ OutstandingEntries # {}
               /\ EarliestOutstandingAge >= 30
               /\ EarliestOutstandingAge < 60
       /\ probe.counts.recovery = 1
            => /\ OutstandingEntries # {}
               /\ EarliestOutstandingAge >= 60

\* ------------------------------------------------------------------ C27
\* The days after the disbursement, up to the as-of date, that are neither a
\* Saturday, a Sunday nor a stored holiday.
ElapsedBusinessDays ==
  Cardinality({day \in (Day(loan.disbursedAt) + 1)..Day(AsOfDate) :
                 /\ ~isWeekend(day * TicksPerDay)
                 /\ ~IsStoredHoliday(day * TicksPerDay)})

\* C27: while the schedule has not run out, the expected repayment of the
\* outstanding-balance computation is the installment times the elapsed
\* business days (at most the entries due after the first), where the
\* elapsed business days leave out every date that matches a stored holiday,
\* a recurring holiday of an earlier year included.
C27_ElapsedDaysSkipHolidays ==
  (OutstandingComputed /\ EntriesDue <= 22)
    => LET scheduleDaysDue == IF EntriesDue > 1 THEN EntriesDue - 1 ELSE 0
           daysCounted == IF ElapsedBusinessDays < scheduleDaysDue
                          THEN ElapsedBusinessDays ELSE scheduleDaysDue
       IN OutstandingOf.expectedRepayment = loan.dailyAmount * daysCounted

\* ------------------------------------------------------------------ C25
SyncReturned == Synced /\ ~probe.outputs[1].threw

\* C25: in the schedule syncLoanRepaymentSchedule returns, every entry has
\* 0 <= amountPaid <= dailyAmount, and every entry that is not a holiday is
\* 'paid' exactly when amountPaid equals dailyAmount, 'partial' exactly when
\* 0 < amountPaid < dailyAmount, and otherwise 'pending', 'approved' (the
\* first entry only) or 'submitted'.
C25_StatusAgreesWithAmountPaid ==
  SyncReturned
    => \A i \in 1..Len(probe.outputs[1].schedule) :
         LET entry == probe.outputs[1].schedule[i]
         IN /\ entry.amountPaid >= 0
            /\ entry.amountPaid <= loan.dailyAmount
            /\ entry.status # "holiday"
                 => /\ entry.status = "paid"
                         <=> entry.amountPaid = loan.dailyAmount
                    /\ entry.status = "partial"
                         <=> (entry.amountPaid > 0
                                /\ entry.amountPaid < loan.dailyAmount)
                    /\ entry.status \in {"paid", "partial", "pending",
                                         "approved", "submitted"}
                    /\ entry.status = "approved" => i = 1

\* A returned schedule with an entry raised to the installment by the
\* tolerance, a partial entry, an unpaid one and a holiday.
C25_Witness ==
  /\ SyncReturned
  /\ \E i \in 1..Len(loan.dailyPayment) : loan.dailyPayment[i].amount = 99
  /\ \E i, j, k, h \in 1..Len(probe.outputs[1].schedule) :
       /\ probe.outputs[1].schedule[i].status = "paid"
       /\ probe.outputs[1].schedule[j].status = "partial"
       /\ probe.outputs[1].schedule[k].status = "pending"
       /\ probe.outputs[1].schedule[h].status = "holiday"

\* ------------------------------------------------------------------ C26
\* Two calls of syncLoanRepaymentSchedule have returned, the second on the
\* ledger of the first with one more payment.
SyncedTwice ==
  /\ probe.fn = "resync"
  /\ Len(probe.outputs) = 2
  /\ ~probe.outputs[1].result.threw
  /\ ~probe.outputs[2].result.threw

\* C26: with the holiday set unchanged, after one more payment is added to
\* the ledger and syncLoanRepaymentSchedule runs again, every entry of the
\* earlier schedule is in the later one with an amountPaid that is not
\* lower, and an entry that was 'paid' is still 'paid'.
C26_AllocationMonotone ==
  SyncedTwice
    => LET before == probe.outputs[1].result.schedule
           after == probe.outputs[2].result.schedule
       IN \A i \in 1..Len(before) :
            \E j \in 1..Len(after) :
              /\ after[j].date = before[i].date
              /\ after[j].amountPaid >= before[i].amountPaid
              /\ before[i].status = "paid" => after[j].status = "paid"

\* The later payment fell on a day the earlier schedule had partly paid, and
\* raised that entry.
C26_Witness ==
  /\ SyncedTwice
  /\ Len(probe.outputs[1].ledger) = 1
  /\ Len(probe.outputs[2].ledger) = 2
  /\ \E i \in 1..Len(probe.outputs[1].result.schedule) :
       \E j \in 1..Len(probe.outputs[2].result.schedule) :
         /\ probe.outputs[1].result.schedule[i].status = "partial"
         /\ probe.outputs[2].result.schedule[j].date
              = probe.outputs[1].result.schedule[i].date
         /\ probe.outputs[2].result.schedule[j].amountPaid
              > probe.outputs[1].result.schedule[i].amountPaid

\* ------------------------------------------------------------------ C28
\* C28: a loan that is 'waiting for approval', 'approved' or 'edited' has an
\* empty payment ledger and amountPaidSoFar 0: recordPayment adds payments
\* to loans in 'active loan' only.
C28_NoPaymentsBeforeDisbursement ==
  loan.status \in {"waiting for approval", "approved", "edited"}
    => /\ loan.dailyPayment = <<>>
       /\ loan.amountPaidSoFar = 0

\* ------------------------------------------------------------------ C29
\* C29: a recordPayment that answers with success raises the stored
\* amountPaidSoFar by exactly the submitted amount and leaves the submitted
\* payment in the stored ledger.
C29_SuccessAddsTheAmount ==
  [][\A amount \in PayAmounts, date \in PayDates :
       (RecordPayment(amount, date) /\ res'.code = 200)
         => /\ loan'.amountPaidSoFar = loan.amountPaidSoFar + amount
            /\ Len(loan'.dailyPayment) = Len(loan.dailyPayment) + 1]_vars

\* ------------------------------------------------------------------ C23
AllAnswered ==
  /\ probe.fn = "requests"
  /\ \A r \in Requests : probe.requests[r].pc = "done"

AcceptedPayments ==
  {r \in Requests : probe.requests[r].op = "payment"
                      /\ probe.requests[r].code = 200}

RECURSIVE SumAccepted(_)
SumAccepted(rs) ==
  IF rs = {} THEN 0
  ELSE LET r == CHOOSE x \in rs : TRUE
       IN probe.requests[r].amount + SumAccepted(rs \ {r})

\* C23: when two recordPayment requests for the same loan have both
\* answered, in whatever order their reads and saves were interleaved, every
\* accepted payment is in the ledger, amountPaidSoFar is the total the ledger
\* had before plus the accepted amounts, and it does not exceed
\* amountToBePaid.
C23_ConcurrentPaymentsAtomic ==
  (AllAnswered /\ (\A r \in Requests : probe.requests[r].op = "payment"))
    => /\ \A r \in AcceptedPayments :
            InLedger(probe.requests[r].amount, probe.requests[r].date)
       /\ loan.amountPaidSoFar = probe.opening + SumAccepted(AcceptedPayments)
       /\ loan.amountPaidSoFar <= loan.amountToBePaid

\* What does hold: the same for accepted payments that differ in amount or
\* date, the requests that read a ledger another request has since saved
\* being refused by the save.
C23_DistinctPaymentsHold ==
  (AllAnswered /\ (\A r \in Requests : probe.requests[r].op = "payment")
     /\ \A r, s \in AcceptedPayments :
          r # s => <<probe.requests[r].amount, probe.requests[r].date>>
                     # <<probe.requests[s].amount, probe.requests[s].date>>)
    => /\ \A r \in AcceptedPayments :
            InLedger(probe.requests[r].amount, probe.requests[r].date)
       /\ loan.amountPaidSoFar = probe.opening + SumAccepted(AcceptedPayments)
       /\ loan.amountPaidSoFar <= loan.amountToBePaid

\* ------------------------------------------------------------------ C30
ReadRequests ==
  {r \in Requests : probe.requests[r].op \in {"get-loan", "repayment-sync"}}

\* C30: when a read handler (GET /api/loans/:id or GET
\* /api/loans/:id/repayment/sync) and recordPayment requests on the same
\* loan have all answered, in whatever order their reads and saves were
\* interleaved, every payment whose recordPayment answered with success is
\* in the stored ledger.
C30_ReadRepairKeepsPayments ==
  (AllAnswered /\ ReadRequests # {})
    => \A r \in AcceptedPayments :
         InLedger(probe.requests[r].amount, probe.requests[r].date)

\* A read handler and a recordPayment read the same stored ledger, which the
\* sanitization changes; the payment was saved first and the read handler's
\* save came after it.
C30_Witness ==
  /\ AllAnswered
  /\ probe.opening > 0
  /\ \E r \in ReadRequests, p \in AcceptedPayments :
       /\ probe.requests[r].version = probe.requests[p].version
       /\ probe.requests[r].code = 400
       /\ InLedger(probe.requests[p].amount, probe.requests[p].date)

\* ------------------------------------------------------------------ C24
OnePerMonth(records) ==
  \A i, j \in 1..Len(records) :
    (records[i].year = records[j].year /\ records[i].month = records[j].month)
      => i = j

\* C24: after any number of runs of the aggregation job the agent's
\* overdueRecords and recoveryRecord each hold at most one entry for a
\* {year, month}.
C24_OneRecordPerMonth ==
  /\ OnePerMonth(cso.overdueRecords)
  /\ OnePerMonth(cso.recoveryRecord)

\* The job has run in three months, the last run on an entry already in
\* place for its month, and the overdue record of some month is not zero.
C24_Witness ==
  /\ probe.fn = "csoDelinquencyJob"
  /\ probe.replaced
  /\ Len(cso.overdueRecords) = 3
  /\ Len(cso.recoveryRecord) = 3
  /\ \E i \in 1..Len(cso.overdueRecords) : cso.overdueRecords[i].value > 0

====
